---------------------------- MODULE Spec2Model ----------------------------
(***************************************************************************)
(* A model of jjviana/ml4devs: three variants of one small linear-model    *)
(* library.                                                                *)
(*   _wine      src/pkg/ml/ml.go          dense regression, min/max        *)
(*                                        normalisation                    *)
(*   _language  src/cmd/language/test/test.go (package ml, lines 38-251)   *)
(*                                        sparse model over hashed indices *)
(*   _spago     src/unnamed/part_000      sparse model held in a spago     *)
(*                                        sparse_stochastic_linear.Model   *)
(* Go strings are sequences of one-character strings; float64 values are   *)
(* exact extended rationals [n, d] (d = 0: NaN, +Inf, -Inf), so rounding   *)
(* is abstracted and division by zero is not.                              *)
(***************************************************************************)
EXTENDS Integers, Sequences, FiniteSets, TLC

VARIABLES
  words,      \* FeatureHash / makeNgrams input: the token sequence
  ngrams,     \* makeNgrams input: the n-gram order
  ngramsOut,  \* result of makeNgrams
  hashOut,    \* result of FeatureHash (language): []uint32
  sparseOut,  \* matrix written by FeatureHash (spago): index -> value
  csvVariant, \* which ReadCSVDataSet runs: "wine", "language" or "spago"
  csvFile,    \* the file: whether it opens, and its records, header first
  csvNgrams,  \* ReadCSVDataSet's ngrams argument (spago)
  csvPc,      \* "call", "loop" or "returned"
  csvReader,  \* the csv.Reader: records left, FieldsPerRecord
  csvRecord,  \* the local variable record
  csvErr,     \* the local variable err
  csvDataSet, \* the local variable dataSet
  csvResult,  \* what ReadCSVDataSet returned
  normIn,     \* the dataset handed to the normaliser, as it was
  normLimits, \* the (min, max) handed to NormalizeDatasetFeaturesWithLimits
  normOut,    \* result of NormalizeDataSetFeatures
  limitsOut,  \* result of NormalizeDatasetFeaturesWithLimits
  tVariant,      \* which Train runs: "wine", "language" or "spago"
  tDataSet,      \* Train's dataSet (wine normalises it in place)
  tLearningRate, \* Train's learningRate
  tNumEpochs,    \* Train's numEpochs
  tNgrams,       \* Train's ngrams (spago)
  tPc,           \* "call", "epoch", "example", "returned", "panicked"
  tModel,        \* the local variable model
  tEpoch,        \* the local variable epoch
  tI,            \* the local variable i: examples of this epoch done
  tSumError,     \* the local variable sumError
  tLog,          \* history: each update step and each loss printed, in order
  tResult,       \* what Train returned
  tFile,         \* the model file SaveModel writes
  tSaved,        \* what SaveModel returned
  tLoaded,       \* what LoadModel returned
  teVariant,     \* which Test runs: "language" or "spago"
  teModel,       \* Test's model
  teDataSet,     \* Test's dataSet
  tePc,          \* "call", "loop" or "returned"
  teI,           \* examples the range loop has done
  teCorrect,     \* the local variable correct
  teListened,    \* the listener's calls, in order
  teResult       \* what Test returned

featVars == <<words, ngrams, ngramsOut, hashOut, sparseOut>>
csvVars == <<csvVariant, csvFile, csvNgrams, csvPc, csvReader, csvRecord,
             csvErr, csvDataSet, csvResult>>
normVars == <<normIn, normLimits, normOut, limitsOut>>
trainVars == <<tVariant, tDataSet, tLearningRate, tNumEpochs, tNgrams, tPc,
               tModel, tEpoch, tI, tSumError, tLog, tResult>>
fileVars == <<tFile, tSaved, tLoaded>>
testVars == <<teVariant, teModel, teDataSet, tePc, teI, teCorrect, teListened,
              teResult>>
vars == <<featVars, csvVars, normVars, trainVars, fileVars, testVars>>
\* what the actions of one part leave alone
notFeat == <<csvVars, normVars, trainVars, fileVars, testVars>>
notCsv == <<featVars, normVars, trainVars, fileVars, testVars>>
notNorm == <<featVars, csvVars, trainVars, fileVars, testVars>>
notTrain == <<featVars, csvVars, normVars, testVars>>
notTest == <<featVars, csvVars, normVars, trainVars, fileVars>>

(***************************************************************************)
(* Bounds of the model                                                     *)
(***************************************************************************)
MaxWords == 3
MaxNgrams == 3
MaxRows == 2
MaxNormExamples == 3
MaxExamples == 2
MaxEpochs == 2
MaxTestExamples == 2

(***************************************************************************)
(* Strings                                                                 *)
(***************************************************************************)
\* The bytes of the characters the inputs are written with (ASCII).
ByteOf(c) ==
  CASE c = "a" -> 97 [] c = "b" -> 98 [] c = "c" -> 99 [] c = "x" -> 120
    [] c = "_" -> 95 [] c = " " -> 32 [] c = "-" -> 45
    [] c = "0" -> 48 [] c = "1" -> 49 [] c = "2" -> 50 [] c = "3" -> 51
    [] c = "7" -> 55

RECURSIVE Xor(_, _)
Xor(a, b) ==
  IF a = 0 /\ b = 0 THEN 0
  ELSE (((a % 2) + (b % 2)) % 2) + 2 * Xor(a \div 2, b \div 2)

(***************************************************************************)
(* hash/fnv New32a: a 32-bit state kept as two 16-bit halves, so that the  *)
(* multiplication modulo 2^32 stays inside TLC's integers.                 *)
(* offset basis 0x811C9DC5, prime 0x01000193 = 2^24 + 403.                 *)
(***************************************************************************)
FnvReset == [hi |-> 33052, lo |-> 40389]

FnvWriteByte(h, b) ==
  LET lo1 == (h.lo \div 256) * 256 + Xor(h.lo % 256, b)
      p   == lo1 * 403
  IN  [lo |-> p % 65536,
       hi |-> (h.hi * 403 + (p \div 65536) + (lo1 % 256) * 256) % 65536]

RECURSIVE FnvWrite(_, _)
FnvWrite(h, s) ==
  IF s = <<>> THEN h ELSE FnvWrite(FnvWriteByte(h, ByteOf(Head(s))), Tail(s))

HashTableSize == 2097152

\* hash.Sum32() % HashTableSize (HashTableSize is a multiple of 2^16)
HashIndex(h) == (h.hi % (HashTableSize \div 65536)) * 65536 + h.lo

(***************************************************************************)
(* FeatureHash, language variant: appends one index per feature.           *)
(***************************************************************************)
RECURSIVE FeatureHashLoop(_, _)
FeatureHashLoop(features, result) ==
  IF features = <<>> THEN result
  ELSE LET h     == FnvWrite(FnvReset, Head(features))
           index == HashIndex(h)
       IN  FeatureHashLoop(Tail(features), Append(result, index))

FeatureHash_language(features) == FeatureHashLoop(features, <<>>)

(***************************************************************************)
(* FeatureHash, spago variant: out.Set(index, 0, 1) for each feature.  The *)
(* sparse matrix is the function from its stored indices to their values;  *)
(* an index that is not stored holds 0.                                    *)
(***************************************************************************)
NewSparse == <<>>
MatAt(m, i) == IF i \in DOMAIN m THEN m[i] ELSE 0
MatSet(m, i, v) == [j \in (DOMAIN m) \cup {i} |-> IF j = i THEN v ELSE m[j]]

RECURSIVE FeatureHash_spago(_, _)
FeatureHash_spago(features, out) ==
  IF features = <<>> THEN out
  ELSE LET h     == FnvWrite(FnvReset, Head(features))
           index == HashIndex(h)
       IN  FeatureHash_spago(Tail(features), MatSet(out, index, 1))

(***************************************************************************)
(* makeNgrams                                                              *)
(***************************************************************************)
\* the inner loop: j from its current value while j < ngrams
RECURSIVE makeNgramsInner(_, _, _, _, _, _)
makeNgramsInner(ws, n, i, j, feature, result) ==
  IF j < n
  THEN IF i + j < Len(ws)
       THEN LET f == feature \o <<"_">> \o ws[i + j + 1]
            IN  makeNgramsInner(ws, n, i, j + 1, f, Append(result, f))
       ELSE makeNgramsInner(ws, n, i, j + 1, feature, result)
  ELSE result

\* the outer loop: i is the 0-based position, ws[i + 1] the Go words[i]
RECURSIVE makeNgramsOuter(_, _, _, _)
makeNgramsOuter(ws, n, i, result) ==
  IF i < Len(ws)
  THEN makeNgramsOuter(ws, n, i + 1,
         makeNgramsInner(ws, n, i, 1, ws[i + 1], Append(result, ws[i + 1])))
  ELSE result

\* the inner loop running while j <= ngrams
makeNgrams_offByOne(ws, n) == makeNgramsOuter(ws, n + 1, 0, <<>>)

makeNgrams(ws, n) == makeNgramsOuter(ws, n, 0, <<>>)

(***************************************************************************)
(* float64 as exact extended rationals: [n, d] with d > 0 in lowest terms, *)
(* or d = 0 for the non-finite values NaN (n = 0), +Inf (n = 1) and -Inf   *)
(* (n = -1).  The operations follow IEEE 754 on the non-finite values.     *)
(***************************************************************************)
Sign(x) == IF x > 0 THEN 1 ELSE IF x < 0 THEN -1 ELSE 0
Abs(x) == IF x < 0 THEN -x ELSE x

RECURSIVE Gcd(_, _)
Gcd(a, b) == IF b = 0 THEN a ELSE Gcd(b, a % b)

Norm(n, d) ==
  IF d = 0 THEN [n |-> Sign(n), d |-> 0]
  ELSE LET g == Gcd(Abs(n), Abs(d))
       IN  [n |-> (Sign(d) * n) \div g, d |-> Abs(d) \div g]

F(k) == [n |-> k, d |-> 1]
NaN == [n |-> 0, d |-> 0]
IsNaN(a) == a.d = 0 /\ a.n = 0
IsInf(a) == a.d = 0 /\ a.n # 0
IsFinite(a) == a.d # 0

FNeg(a) == [n |-> -a.n, d |-> a.d]
FAdd(a, b) ==
  IF a.d = 0 /\ b.d = 0 THEN (IF a.n = b.n THEN a ELSE NaN)
  ELSE IF a.d = 0 THEN a
  ELSE IF b.d = 0 THEN b
  ELSE Norm(a.n * b.d + b.n * a.d, a.d * b.d)
FSub(a, b) == FAdd(a, FNeg(b))
FMul(a, b) == Norm(a.n * b.n, a.d * b.d)
FDiv(a, b) ==
  IF b.n < 0 THEN Norm(-(a.n * b.d), a.d * (-b.n))
  ELSE Norm(a.n * b.d, a.d * b.n)
FLt(a, b) ==
  IF IsNaN(a) \/ IsNaN(b) THEN FALSE
  ELSE IF a.d = 0 /\ b.d = 0 THEN a.n < b.n
  ELSE IF a.d = 0 THEN a.n < 0
  ELSE IF b.d = 0 THEN b.n > 0
  ELSE a.n * b.d < b.n * a.d
FLe(a, b) == ~IsNaN(a) /\ ~IsNaN(b) /\ ~FLt(b, a)
\* math.Max and math.Min
FMax(a, b) == IF IsNaN(a) \/ IsNaN(b) THEN NaN ELSE IF FLt(a, b) THEN b ELSE a
FMin(a, b) == IF IsNaN(a) \/ IsNaN(b) THEN NaN ELSE IF FLt(b, a) THEN b ELSE a

(***************************************************************************)
(* strconv.ParseFloat on the decimal integers the inputs are written with: *)
(* an optional '-' and at least one digit; anything else is a syntax error *)
(***************************************************************************)
IsDigit(c) == c \in {"0", "1", "2", "3", "7"}

RECURSIVE DigitsValue(_, _)
DigitsValue(s, acc) ==
  IF s = <<>> THEN acc
  ELSE DigitsValue(Tail(s), 10 * acc + (ByteOf(Head(s)) - 48))

ParseFloat(s) ==
  LET neg  == s # <<>> /\ Head(s) = "-"
      body == IF neg THEN Tail(s) ELSE s
  IN  IF body # <<>> /\ \A i \in 1..Len(body) : IsDigit(body[i])
      THEN [ok |-> TRUE,
            val |-> F(IF neg THEN -DigitsValue(body, 0) ELSE DigitsValue(body, 0))]
      ELSE [ok |-> FALSE, val |-> F(0)]

\* strings.Split(s, " ")
RECURSIVE SplitLoop(_, _, _)
SplitLoop(s, cur, done) ==
  IF s = <<>> THEN Append(done, cur)
  ELSE IF Head(s) = " " THEN SplitLoop(Tail(s), <<>>, Append(done, cur))
  ELSE SplitLoop(Tail(s), Append(cur, Head(s)), done)

Split(s) == SplitLoop(s, <<>>, <<>>)

(***************************************************************************)
(* encoding/csv Reader with the default FieldsPerRecord = 0: the first     *)
(* record read fixes the field count, and a later record with another      *)
(* count is returned together with ErrFieldCount.                          *)
(***************************************************************************)
NewReader(rows) == [rows |-> rows, FieldsPerRecord |-> 0]

ReaderRead(r) ==
  IF r.rows = <<>>
  THEN [record |-> <<>>, err |-> "EOF", reader |-> r]
  ELSE LET rec == Head(r.rows)
       IN  [record |-> rec,
            err |-> IF r.FieldsPerRecord > 0 /\ Len(rec) # r.FieldsPerRecord
                    THEN "ErrFieldCount" ELSE "nil",
            reader |-> [rows |-> Tail(r.rows),
                        FieldsPerRecord |-> IF r.FieldsPerRecord = 0
                                            THEN Len(rec)
                                            ELSE r.FieldsPerRecord]]

\* what ReadCSVDataSet returns: (dataSet, nil) or (nil, error)
ReturnDataSet(ds) == [returned |-> TRUE, isNil |-> FALSE, dataSet |-> ds, err |-> "nil"]
ReturnError(e) == [returned |-> TRUE, isNil |-> TRUE, dataSet |-> <<>>, err |-> e]
NotReturned == [returned |-> FALSE, isNil |-> TRUE, dataSet |-> <<>>, err |-> "nil"]

(***************************************************************************)
(* Normalisation (src/pkg/ml/ml.go)                                        *)
(***************************************************************************)
\* math.MaxFloat64: a finite value above every finite input of the model
MaxFloat64 == F(1000000)

\* the loop "Find min and max", from example i on
RECURSIVE FindMinMax(_, _, _, _)
FindMinMax(dataSet, i, maxValues, minValues) ==
  IF i > Len(dataSet)
  THEN [err |-> "nil", maxValues |-> maxValues, minValues |-> minValues]
  ELSE IF Len(dataSet[i].Features) < Len(maxValues)
  THEN [err |-> "expected features", maxValues |-> <<>>, minValues |-> <<>>]
  ELSE FindMinMax(dataSet, i + 1,
         [j \in 1..Len(maxValues) |-> FMax(maxValues[j], dataSet[i].Features[j])],
         [j \in 1..Len(minValues) |-> FMin(minValues[j], dataSet[i].Features[j])])

\* an index out of range in dataSet[i].Features[j] or minValues[j]
LimitsOutOfRange(dataSet, maxValues, minValues) ==
  \/ Len(dataSet) > 0 /\ Len(maxValues) > Len(minValues)
  \/ \E i \in 1..Len(dataSet) : Len(maxValues) > Len(dataSet[i].Features)

\* the operands in the order (value - max) / (min - max)
NormalizeDatasetFeaturesWithLimits_swapped(dataSet, maxValues, minValues) ==
  IF LimitsOutOfRange(dataSet, maxValues, minValues)
  THEN [panic |-> TRUE, dataSet |-> dataSet]
  ELSE [panic |-> FALSE,
        dataSet |->
          [i \in 1..Len(dataSet) |->
             [dataSet[i] EXCEPT !.Features =
                [j \in 1..Len(dataSet[i].Features) |->
                   IF j <= Len(maxValues)
                   THEN FDiv(FSub(dataSet[i].Features[j], maxValues[j]),
                             FSub(minValues[j], maxValues[j]))
                   ELSE dataSet[i].Features[j]]]]]

\* Rescales in place; a run that panics leaves the process dead, so the
\* dataset it had partly written is not kept.
NormalizeDatasetFeaturesWithLimits(dataSet, maxValues, minValues) ==
  IF LimitsOutOfRange(dataSet, maxValues, minValues)
  THEN [panic |-> TRUE, dataSet |-> dataSet]
  ELSE [panic |-> FALSE,
        dataSet |->
          [i \in 1..Len(dataSet) |->
             [dataSet[i] EXCEPT !.Features =
                [j \in 1..Len(dataSet[i].Features) |->
                   IF j <= Len(maxValues)
                   THEN FDiv(FSub(dataSet[i].Features[j], minValues[j]),
                             FSub(maxValues[j], minValues[j]))
                   ELSE dataSet[i].Features[j]]]]]

NormalizeDataSetFeatures(dataSet) ==
  IF Len(dataSet) < 1
  THEN [err |-> "empty data set", minValues |-> <<>>, maxValues |-> <<>>,
        dataSet |-> dataSet]
  ELSE LET dim == Len(dataSet[1].Features)
           mm  == FindMinMax(dataSet, 1, [j \in 1..dim |-> FNeg(MaxFloat64)],
                             [j \in 1..dim |-> MaxFloat64])
       IN  IF mm.err # "nil"
           THEN [err |-> mm.err, minValues |-> <<>>, maxValues |-> <<>>,
                 dataSet |-> dataSet]
           ELSE [err |-> "nil", minValues |-> mm.minValues,
                 maxValues |-> mm.maxValues,
                 dataSet |-> NormalizeDatasetFeaturesWithLimits(
                               dataSet, mm.maxValues, mm.minValues).dataSet]

(***************************************************************************)
(* A function that has not been called yet, and the state of the parts of  *)
(* the program a specification does not run                                *)
(***************************************************************************)
NotRun == [done |-> FALSE, val |-> <<>>]
Ran(v) == [done |-> TRUE, val |-> v]

FeaturesIdle ==
  /\ words = <<>>
  /\ ngrams = 0
  /\ ngramsOut = NotRun
  /\ hashOut = NotRun
  /\ sparseOut = NotRun

CsvIdle ==
  /\ csvVariant = "none"
  /\ csvFile = [exists |-> FALSE, rows |-> <<>>]
  /\ csvNgrams = 0
  /\ csvPc = "idle"
  /\ csvReader = NewReader(<<>>)
  /\ csvRecord = <<>>
  /\ csvErr = "nil"
  /\ csvDataSet = <<>>
  /\ csvResult = NotReturned

NormIdle ==
  /\ normIn = <<>>
  /\ normLimits = [min |-> <<>>, max |-> <<>>]
  /\ normOut = NotRun
  /\ limitsOut = NotRun

TrainIdle ==
  /\ tVariant = "none"
  /\ tDataSet = <<>>
  /\ tLearningRate = F(0)
  /\ tNumEpochs = 0
  /\ tNgrams = 0
  /\ tPc = "idle"
  /\ tModel = <<>>
  /\ tEpoch = 0
  /\ tI = 0
  /\ tSumError = F(0)
  /\ tLog = <<>>
  /\ tResult = NotRun
  /\ tFile = NotRun
  /\ tSaved = NotRun
  /\ tLoaded = NotRun

TestIdle ==
  /\ teVariant = "none"
  /\ teModel = <<>>
  /\ teDataSet = <<>>
  /\ tePc = "idle"
  /\ teI = 0
  /\ teCorrect = F(0)
  /\ teListened = <<>>
  /\ teResult = NotRun

(***************************************************************************)
(* Inputs                                                                  *)
(***************************************************************************)
Tokens == {<<"a">>, <<"b">>, <<"c">>, <<"a", "b">>}
SeqsUpTo(S, n) == UNION {[1..k -> S] : k \in 0..n}
(***************************************************************************)
(* The feature functions applied to bounded inputs                         *)
(***************************************************************************)
InitFeatures ==
  /\ CsvIdle
  /\ NormIdle
  /\ TrainIdle
  /\ TestIdle
  /\ words \in SeqsUpTo(Tokens, MaxWords)
  /\ ngrams \in 0..MaxNgrams
  /\ ngramsOut = NotRun
  /\ hashOut = NotRun
  /\ sparseOut = NotRun

CallMakeNgrams ==
  /\ ~ngramsOut.done
  /\ ngramsOut' = Ran(makeNgrams(words, ngrams))
  /\ UNCHANGED <<words, ngrams, hashOut, sparseOut, notFeat>>

CallFeatureHash_language ==
  /\ ~hashOut.done
  /\ hashOut' = Ran(FeatureHash_language(words))
  /\ UNCHANGED <<words, ngrams, ngramsOut, sparseOut, notFeat>>

CallFeatureHash_spago ==
  /\ ~sparseOut.done
  /\ sparseOut' = Ran(FeatureHash_spago(words, NewSparse))
  /\ UNCHANGED <<words, ngrams, ngramsOut, hashOut, notFeat>>

NextFeatures ==
  \/ CallMakeNgrams
  \/ CallFeatureHash_language
  \/ CallFeatureHash_spago

SpecFeatures == InitFeatures /\ [][NextFeatures]_vars

(***************************************************************************)
(* Reference definitions used to state the claims about the feature        *)
(* functions                                                               *)
(***************************************************************************)
\* the index fnv.New32a gives one token on its own
TokenIndex(w) == HashIndex(FnvWrite(FnvReset, w))

RECURSIVE JoinUnderscore(_)
JoinUnderscore(ws) ==
  IF Len(ws) = 1 THEN ws[1] ELSE ws[1] \o <<"_">> \o JoinUnderscore(Tail(ws))

RECURSIVE Flatten(_)
Flatten(ss) == IF ss = <<>> THEN <<>> ELSE Head(ss) \o Flatten(Tail(ss))

\* word i alone, then word i extended by 1, 2, ... following words, at most
\* n-1 of them and no further than the end of the sequence
GramsAt(ws, n, i) ==
  LET ext == IF n - 1 < Len(ws) - i THEN n - 1 ELSE Len(ws) - i
  IN  [k \in 1..(ext + 1) |-> JoinUnderscore(SubSeq(ws, i, i + k - 1))]

ExpectedNgrams(ws, n) ==
  IF n <= 1 THEN ws ELSE Flatten([i \in 1..Len(ws) |-> GramsAt(ws, n, i)])

\* the number of tokens of ws that hash to idx
Occurrences(ws, idx) == Cardinality({i \in 1..Len(ws) : TokenIndex(ws[i]) = idx})

\* C1: FeatureHash produces one index per input token, in input order with
\* repeated tokens retained (as repeated indices, or in the matrix form as one
\* unit of contribution per occurrence), and every index is in
\* 0..HashTableSize-1.  Stated of both variants of FeatureHash.
C1_OneIndexPerToken ==
  /\ hashOut.done =>
       /\ Len(hashOut.val) = Len(words)
       /\ \A i \in 1..Len(words) :
            /\ hashOut.val[i] = TokenIndex(words[i])
            /\ hashOut.val[i] \in 0..(HashTableSize - 1)
  /\ sparseOut.done =>
       /\ DOMAIN sparseOut.val \subseteq 0..(HashTableSize - 1)
       /\ \A i \in 1..Len(words) :
            MatAt(sparseOut.val, TokenIndex(words[i]))
              = Occurrences(words, TokenIndex(words[i]))

\* The statement of C1 restricted to the language variant, which returns the
\* index sequence.
C1_LanguageVariant ==
  hashOut.done =>
    /\ Len(hashOut.val) = Len(words)
    /\ \A i \in 1..Len(words) :
         /\ hashOut.val[i] = TokenIndex(words[i])
         /\ hashOut.val[i] \in 0..(HashTableSize - 1)

\* C2: makeNgrams(words, n) is the input for n <= 1, and for n >= 2 lists, for
\* each start position in order, the word and its '_'-joined extensions by up
\* to n-1 following words, cut at the end of the sequence;
\* makeNgrams([a,b,c], 2) = [a, a_b, b, b_c, c].
C2_MakeNgrams ==
  /\ ngramsOut.done => ngramsOut.val = ExpectedNgrams(words, ngrams)
  /\ makeNgrams(<<<<"a">>, <<"b">>, <<"c">>>>, 2)
       = << <<"a">>, <<"a", "_", "b">>, <<"b">>, <<"b", "_", "c">>, <<"c">> >>

\* a three-word input expanded with n = 3: the last two positions give
\* shorter grams
C2_Witness ==
  /\ ngramsOut.done
  /\ ngrams = 3
  /\ Len(words) = 3
  /\ Len(ngramsOut.val) = 6
  /\ ngramsOut.val[3] = words[1] \o <<"_">> \o words[2] \o <<"_">> \o words[3]

(***************************************************************************)
(* ReadCSVDataSet, three variants.  One action per step: the call up to    *)
(* the loop, one iteration of the loop, and the code after the loop.       *)
(***************************************************************************)
MinColumns == 10

\* ---- wine (src/pkg/ml/ml.go) ----
ReadCSVDataSet_wine_Open ==
  /\ csvVariant = "wine" /\ csvPc = "call"
  /\ IF ~csvFile.exists
     THEN /\ csvResult' = ReturnError("open")
          /\ csvPc' = "returned"
          /\ UNCHANGED <<csvReader, csvRecord, csvErr, csvDataSet>>
     ELSE LET header == ReaderRead(NewReader(csvFile.rows))
              first  == ReaderRead(header.reader)
          IN  /\ csvReader' = first.reader
              /\ csvRecord' = first.record
              /\ csvErr' = first.err
              /\ csvDataSet' = <<>>
              /\ csvPc' = "loop"
              /\ UNCHANGED csvResult
  /\ UNCHANGED <<csvVariant, csvFile, csvNgrams, notCsv>>

\* the body of the loop: the example read from record, or the error returned
ParseExample_wine(record) ==
  LET n == Len(record) - 1
  IN  IF Len(record) < MinColumns THEN [ok |-> FALSE, err |-> "expected 10 values"]
      ELSE IF \E i \in 1..n : ~ParseFloat(record[i]).ok
      THEN [ok |-> FALSE, err |-> "parsing feature value"]
      ELSE IF ~ParseFloat(record[Len(record)]).ok
      THEN [ok |-> FALSE, err |-> "parsing label"]
      ELSE [ok |-> TRUE, err |-> "nil",
            example |-> [Features |-> [i \in 1..n |-> ParseFloat(record[i]).val],
                         Label |-> ParseFloat(record[Len(record)]).val]]

ReadCSVDataSet_wine_Record ==
  /\ csvVariant = "wine" /\ csvPc = "loop" /\ csvErr = "nil"
  /\ LET p == ParseExample_wine(csvRecord)
     IN  IF ~p.ok
         THEN /\ csvResult' = ReturnError(p.err)
              /\ csvPc' = "returned"
              /\ UNCHANGED <<csvReader, csvRecord, csvErr, csvDataSet>>
         ELSE LET next == ReaderRead(csvReader)
              IN  /\ csvDataSet' = Append(csvDataSet, p.example)
                  /\ csvReader' = next.reader
                  /\ csvRecord' = next.record
                  /\ csvErr' = next.err
                  /\ UNCHANGED <<csvPc, csvResult>>
  /\ UNCHANGED <<csvVariant, csvFile, csvNgrams, notCsv>>

\* the code after the loop without its test of err against io.EOF
ReadCSVDataSet_wine_Return_ignoresErr ==
  /\ csvVariant = "wine" /\ csvPc = "loop" /\ csvErr # "nil"
  /\ csvResult' = ReturnDataSet(csvDataSet)
  /\ csvPc' = "returned"
  /\ UNCHANGED <<csvVariant, csvFile, csvNgrams, csvReader, csvRecord, csvErr,
                 csvDataSet, notCsv>>

ReadCSVDataSet_wine_Return ==
  /\ csvVariant = "wine" /\ csvPc = "loop" /\ csvErr # "nil"
  /\ csvResult' = IF csvErr # "EOF" THEN ReturnError(csvErr)
                  ELSE ReturnDataSet(csvDataSet)
  /\ csvPc' = "returned"
  /\ UNCHANGED <<csvVariant, csvFile, csvNgrams, csvReader, csvRecord, csvErr,
                 csvDataSet, notCsv>>

\* ---- language (src/cmd/language/test/test.go) ----
ReadCSVDataSet_language_Open ==
  /\ csvVariant = "language" /\ csvPc = "call"
  /\ IF ~csvFile.exists
     THEN /\ csvResult' = ReturnError("open")
          /\ csvPc' = "returned"
          /\ UNCHANGED <<csvReader, csvRecord, csvErr, csvDataSet>>
     ELSE LET header == ReaderRead(NewReader(csvFile.rows))
              first  == ReaderRead(header.reader)
          IN  /\ csvReader' = first.reader
              /\ csvRecord' = first.record
              /\ csvErr' = first.err
              /\ csvDataSet' = <<>>
              /\ csvPc' = "loop"
              /\ UNCHANGED csvResult
  /\ UNCHANGED <<csvVariant, csvFile, csvNgrams, notCsv>>

ReadCSVDataSet_language_Record ==
  /\ csvVariant = "language" /\ csvPc = "loop" /\ csvErr = "nil"
  /\ IF Len(csvRecord) < 2
     THEN /\ csvResult' = ReturnError("expected 2 values")
          /\ csvPc' = "returned"
          /\ UNCHANGED <<csvReader, csvRecord, csvErr, csvDataSet>>
     ELSE LET sentence == csvRecord[1]
              features == FeatureHash_language(Split(sentence))
              label    == ParseFloat(csvRecord[Len(csvRecord)])
              next     == ReaderRead(csvReader)
          IN  /\ csvDataSet' =
                   IF label.ok
                   THEN Append(csvDataSet, [Sentence |-> sentence,
                                            Features |-> features,
                                            Label |-> label.val])
                   ELSE csvDataSet
              /\ csvReader' = next.reader
              /\ csvRecord' = next.record
              /\ csvErr' = next.err
              /\ UNCHANGED <<csvPc, csvResult>>
  /\ UNCHANGED <<csvVariant, csvFile, csvNgrams, notCsv>>

ReadCSVDataSet_language_Return ==
  /\ csvVariant = "language" /\ csvPc = "loop" /\ csvErr # "nil"
  /\ csvResult' = IF csvErr # "EOF" THEN ReturnError(csvErr)
                  ELSE ReturnDataSet(csvDataSet)
  /\ csvPc' = "returned"
  /\ UNCHANGED <<csvVariant, csvFile, csvNgrams, csvReader, csvRecord, csvErr,
                 csvDataSet, notCsv>>

\* ---- spago (src/unnamed/part_000) ----
\* The header is read by the one reader.Read() before the loop, and the loop
\* starts on that record.
ReadCSVDataSet_spago_Open ==
  /\ csvVariant = "spago" /\ csvPc = "call"
  /\ IF ~csvFile.exists
     THEN /\ csvResult' = ReturnError("open")
          /\ csvPc' = "returned"
          /\ UNCHANGED <<csvReader, csvRecord, csvErr, csvDataSet>>
     ELSE LET first == ReaderRead(NewReader(csvFile.rows))
          IN  /\ csvReader' = first.reader
              /\ csvRecord' = first.record
              /\ csvErr' = first.err
              /\ csvDataSet' = <<>>
              /\ csvPc' = "loop"
              /\ UNCHANGED csvResult
  /\ UNCHANGED <<csvVariant, csvFile, csvNgrams, notCsv>>

ReadCSVDataSet_spago_Record ==
  /\ csvVariant = "spago" /\ csvPc = "loop" /\ csvErr = "nil"
  /\ IF Len(csvRecord) < 2
     THEN /\ csvResult' = ReturnError("expected 2 values")
          /\ csvPc' = "returned"
          /\ UNCHANGED <<csvReader, csvRecord, csvErr, csvDataSet>>
     ELSE LET sentence == csvRecord[1]
              split    == Split(sentence)
              ws       == IF csvNgrams > 0 THEN makeNgrams(split, csvNgrams)
                          ELSE split
              features == FeatureHash_spago(ws, NewSparse)
              label    == ParseFloat(csvRecord[Len(csvRecord)])
              next     == ReaderRead(csvReader)
          IN  /\ csvDataSet' =
                   IF label.ok
                   THEN Append(csvDataSet, [Sentence |-> sentence,
                                            Features |-> features,
                                            Label |-> label.val])
                   ELSE csvDataSet
              /\ csvReader' = next.reader
              /\ csvRecord' = next.record
              /\ csvErr' = next.err
              /\ UNCHANGED <<csvPc, csvResult>>
  /\ UNCHANGED <<csvVariant, csvFile, csvNgrams, notCsv>>

ReadCSVDataSet_spago_Return ==
  /\ csvVariant = "spago" /\ csvPc = "loop" /\ csvErr # "nil"
  /\ csvResult' = IF csvErr # "EOF" THEN ReturnError(csvErr)
                  ELSE ReturnDataSet(csvDataSet)
  /\ csvPc' = "returned"
  /\ UNCHANGED <<csvVariant, csvFile, csvNgrams, csvReader, csvRecord, csvErr,
                 csvDataSet, notCsv>>

(***************************************************************************)
(* The files read                                                          *)
(***************************************************************************)
\* a dense row of w fields, all "1" but field k (none when k = 0), which is g
DenseRow(w, k, g) == [i \in 1..w |-> IF i = k THEN g ELSE <<"1">>]
DenseWidths == (MinColumns - 1)..(MinColumns + 1)
DenseRows ==
  {DenseRow(w, 0, <<"1">>) : w \in DenseWidths}
    \cup UNION {{DenseRow(w, k, g) : k \in {1, w}, g \in {<<"x">>, <<"2">>}}
                  : w \in DenseWidths}
DenseHeaders == {[i \in 1..w |-> <<"c">>] : w \in DenseWidths}

Sentences == {<<"a">>, <<"a", " ", "b">>, <<"a", " ", "a">>}
Labels == {<<"1">>, <<"0">>, <<"x">>}
SparseRows == {<<s, l>> : s \in Sentences, l \in Labels} \cup {<< <<"a">> >>}
SparseHeaders == {<< <<"c">>, <<"x">> >>, << <<"c">>, <<"7">> >>}

FilesOf(headers, rows) ==
  {[exists |-> FALSE, rows |-> <<>>], [exists |-> TRUE, rows |-> <<>>]}
    \cup {[exists |-> TRUE, rows |-> <<h>> \o rs] :
            h \in headers, rs \in SeqsUpTo(rows, MaxRows)}

InitCSV ==
  /\ FeaturesIdle
  /\ NormIdle
  /\ TrainIdle
  /\ TestIdle
  /\ csvVariant \in {"wine", "language", "spago"}
  /\ csvFile \in IF csvVariant = "wine" THEN FilesOf(DenseHeaders, DenseRows)
                 ELSE FilesOf(SparseHeaders, SparseRows)
  /\ csvNgrams \in IF csvVariant = "spago" THEN {0, 2} ELSE {0}
  /\ csvPc = "call"
  /\ csvReader = NewReader(<<>>)
  /\ csvRecord = <<>>
  /\ csvErr = "nil"
  /\ csvDataSet = <<>>
  /\ csvResult = NotReturned

NextCSV ==
  \/ ReadCSVDataSet_wine_Open
  \/ ReadCSVDataSet_wine_Record
  \/ ReadCSVDataSet_wine_Return
  \/ ReadCSVDataSet_language_Open
  \/ ReadCSVDataSet_language_Record
  \/ ReadCSVDataSet_language_Return
  \/ ReadCSVDataSet_spago_Open
  \/ ReadCSVDataSet_spago_Record
  \/ ReadCSVDataSet_spago_Return

SpecCSV == InitCSV /\ [][NextCSV]_vars

(***************************************************************************)
(* Claims about ReadCSVDataSet                                             *)
(***************************************************************************)
\* a data row whose column count is not the one the header established, or
\* is below the ten columns the reader asks for
MalformedRow_wine(rows, i) ==
  Len(rows[i]) # Len(rows[1]) \/ Len(rows[i]) < MinColumns

\* C7: in dense mode, if any data row has the wrong number of columns (fewer
\* or more than expected), ReadCSVDataSet returns an error and a nil dataset:
\* no example read before the malformed row is returned.
C7_MalformedRowFailsRead ==
  ( /\ csvVariant = "wine"
    /\ csvResult.returned
    /\ csvFile.exists
    /\ \E i \in 2..Len(csvFile.rows) : MalformedRow_wine(csvFile.rows, i) )
  => /\ csvResult.isNil
     /\ csvResult.err # "nil"
     /\ csvResult.dataSet = <<>>

\* a good first data row, then a row wider than the header: the example read
\* from the first row is dropped with the error
C7_Witness ==
  /\ csvVariant = "wine"
  /\ csvResult.returned
  /\ Len(csvFile.rows) = 3
  /\ ~MalformedRow_wine(csvFile.rows, 2)
  /\ Len(csvFile.rows[3]) > Len(csvFile.rows[1])
  /\ Len(csvDataSet) = 1
  /\ csvResult.isNil
  /\ csvResult.err = "ErrFieldCount"

WellFormedTwoColumns(file) ==
  /\ file.exists
  /\ file.rows # <<>>
  /\ \A i \in 1..Len(file.rows) : Len(file.rows[i]) = 2

LabelParses(r) == ParseFloat(r[Len(r)]).ok

\* the records after the header whose label parses, as (sentence, label)
ExpectedExamples(rows) ==
  LET kept == SelectSeq(Tail(rows), LabelParses)
  IN  [i \in 1..Len(kept) |-> <<kept[i][1], ParseFloat(kept[i][2]).val>>]

SentencesAndLabels(ds) == [i \in 1..Len(ds) |-> <<ds[i].Sentence, ds[i].Label>>]

\* C8: in sparse mode, for every well-formed two-column CSV file,
\* ReadCSVDataSet succeeds and returns, in file order, exactly the records
\* after the header line whose label parses as a number: the header is never
\* returned, and a record with an unparsable label is skipped without
\* aborting the read.  Stated of both sparse variants.
C8_HeaderSkippedBadLabelsDropped ==
  ( /\ csvVariant \in {"language", "spago"}
    /\ csvResult.returned
    /\ WellFormedTwoColumns(csvFile) )
  => /\ ~csvResult.isNil
     /\ csvResult.err = "nil"
     /\ SentencesAndLabels(csvResult.dataSet) = ExpectedExamples(csvFile.rows)

\* The statement of C8 restricted to the language variant, which reads the
\* header and then the first record before the loop.
C8_LanguageVariant ==
  ( /\ csvVariant = "language"
    /\ csvResult.returned
    /\ WellFormedTwoColumns(csvFile) )
  => /\ ~csvResult.isNil
     /\ csvResult.err = "nil"
     /\ SentencesAndLabels(csvResult.dataSet) = ExpectedExamples(csvFile.rows)

(***************************************************************************)
(* The normaliser applied to bounded datasets                              *)
(***************************************************************************)
NormValues == {F(0), F(1), F(3)}
NormExamples ==
  {[Features |-> fs, Label |-> F(0)] : fs \in [1..1 -> NormValues] \cup [1..2 -> NormValues]}
\* limits as a model loaded from a file holds them: (min, max)
NormLimitsChoices ==
  {[min |-> <<F(0)>>, max |-> <<F(3)>>], [min |-> <<F(1)>>, max |-> <<F(1)>>]}

InitNormalize ==
  /\ FeaturesIdle
  /\ CsvIdle
  /\ TrainIdle
  /\ TestIdle
  /\ normIn \in SeqsUpTo(NormExamples, MaxNormExamples)
  /\ normLimits \in NormLimitsChoices
  /\ normOut = NotRun
  /\ limitsOut = NotRun

\* as Train calls it
CallNormalizeDataSetFeatures ==
  /\ ~normOut.done
  /\ normOut' = Ran(NormalizeDataSetFeatures(normIn))
  /\ UNCHANGED <<normIn, normLimits, limitsOut, notNorm>>

\* as Test calls it, with the limits of a model
CallNormalizeDatasetFeaturesWithLimits ==
  /\ ~limitsOut.done
  /\ limitsOut' = Ran(NormalizeDatasetFeaturesWithLimits(
                        normIn, normLimits.max, normLimits.min))
  /\ UNCHANGED <<normIn, normLimits, normOut, notNorm>>

NextNormalize ==
  \/ CallNormalizeDataSetFeatures
  \/ CallNormalizeDatasetFeaturesWithLimits

SpecNormalize == InitNormalize /\ [][NextNormalize]_vars

\* the original values of feature j over the dataset
Column(ds, j) == {ds[i].Features[j] : i \in 1..Len(ds)}
IsLeast(v, S) == v \in S /\ \A w \in S : FLe(v, w)
IsGreatest(v, S) == v \in S /\ \A w \in S : FLe(w, v)
Dim(ds) == Len(ds[1].Features)

\* C3: after NormalizeDataSetFeatures succeeds, min[j] and max[j] are the
\* smallest and largest original values of feature j, and for every feature
\* whose values are not all equal every example's value lies in [0,1], the
\* examples that held the minimum now hold 0 and those that held the maximum 1.
C3_NormalizedToUnitInterval ==
  (normOut.done /\ normOut.val.err = "nil") =>
    LET out == normOut.val
    IN  /\ Len(out.minValues) = Dim(normIn)
        /\ Len(out.maxValues) = Dim(normIn)
        /\ \A j \in 1..Dim(normIn) :
             /\ IsLeast(out.minValues[j], Column(normIn, j))
             /\ IsGreatest(out.maxValues[j], Column(normIn, j))
             /\ Cardinality(Column(normIn, j)) > 1 =>
                  \A i \in 1..Len(normIn) :
                    LET v == out.dataSet[i].Features[j]
                    IN  /\ FLe(F(0), v) /\ FLe(v, F(1))
                        /\ normIn[i].Features[j] = out.minValues[j] => v = F(0)
                        /\ normIn[i].Features[j] = out.maxValues[j] => v = F(1)

\* three examples whose first feature takes three values: one is strictly
\* inside the interval
C3_Witness ==
  /\ normOut.done /\ normOut.val.err = "nil"
  /\ Len(normIn) = 3
  /\ Cardinality(Column(normIn, 1)) = 3
  /\ \E i \in 1..3 : normOut.val.dataSet[i].Features[1] = [n |-> 1, d |-> 3]
  /\ \E i \in 1..3 : normOut.val.dataSet[i].Features[1] = F(0)
  /\ \E i \in 1..3 : normOut.val.dataSet[i].Features[1] = F(1)

AllFinite(ds) ==
  \A i \in 1..Len(ds) : \A j \in 1..Len(ds[i].Features) : IsFinite(ds[i].Features[j])

\* C4: normalisation never divides by zero: with a constant feature
\* (max[j] = min[j]) NormalizeDatasetFeaturesWithLimits, called by Train or by
\* Test, writes no NaN or Inf value into the dataset.
C4_NoNaNOrInfWritten ==
  /\ (normOut.done /\ normOut.val.err = "nil") => AllFinite(normOut.val.dataSet)
  /\ (limitsOut.done /\ ~limitsOut.val.panic) => AllFinite(limitsOut.val.dataSet)

(***************************************************************************)
(* Predict and Train.  Train is one action per step: the code before the   *)
(* loops, the start of an epoch, one example, the end of an epoch, and the *)
(* return.                                                                 *)
(***************************************************************************)
\* the sum of f[1..n]
RECURSIVE FSum(_, _)
FSum(f, n) == IF n = 0 THEN F(0) ELSE FAdd(FSum(f, n - 1), f[n])

\* ---- wine ----
\* Predict reads model.Coeficients[i] for every feature of the example
Predict_wine(model, example) ==
  IF Len(example.Features) > Len(model.Coeficients)
  THEN [panic |-> TRUE, val |-> F(0)]
  ELSE [panic |-> FALSE,
        val |-> FAdd(model.Bias,
                     FSum([i \in 1..Len(example.Features) |->
                             FMul(model.Coeficients[i], example.Features[i])],
                          Len(example.Features)))]

Train_wine_Call ==
  /\ tVariant = "wine" /\ tPc = "call"
  /\ LET nz == NormalizeDataSetFeatures(tDataSet)
     IN  IF nz.err # "nil"
         THEN /\ tResult' = Ran([err |-> "error normalizing dataset", model |-> <<>>])
              /\ tPc' = "returned"
              /\ UNCHANGED <<tDataSet, tModel, tEpoch>>
         ELSE /\ tDataSet' = nz.dataSet
              /\ tModel' = [Bias |-> F(0),
                            Coeficients |-> [j \in 1..Len(tDataSet[1].Features) |-> F(0)],
                            MinFeatureValues |-> nz.minValues,
                            MaxFeatureValues |-> nz.maxValues]
              /\ tEpoch' = 0
              /\ tPc' = "epoch"
              /\ UNCHANGED tResult
  /\ UNCHANGED <<tVariant, tLearningRate, tNumEpochs, tNgrams, tI, tSumError,
                 tLog, fileVars, notTrain>>

\* one iteration of the loop over the examples
Train_wine_Example ==
  /\ tVariant = "wine" /\ tPc = "example" /\ tI < Len(tDataSet)
  /\ LET example    == tDataSet[tI + 1]
         prediction == Predict_wine(tModel, example)
         error      == FSub(prediction.val, example.Label)
     IN  IF prediction.panic \/ Len(tModel.Coeficients) > Len(example.Features)
         THEN /\ tPc' = "panicked"
              /\ UNCHANGED <<tModel, tI, tSumError, tLog>>
         ELSE /\ tSumError' = FAdd(tSumError, FMul(error, error))
              /\ tModel' =
                   [tModel EXCEPT
                      !.Bias = FSub(tModel.Bias, FMul(tLearningRate, error)),
                      !.Coeficients =
                         [j \in 1..Len(tModel.Coeficients) |->
                            FSub(tModel.Coeficients[j],
                                 FMul(FMul(tLearningRate, error), example.Features[j]))]]
              /\ tI' = tI + 1
              /\ tLog' = Append(tLog, [kind |-> "step", epoch |-> tEpoch, i |-> tI])
              /\ UNCHANGED tPc
  /\ UNCHANGED <<tVariant, tDataSet, tLearningRate, tNumEpochs, tNgrams, tEpoch,
                 tResult, fileVars, notTrain>>

\* ---- language ----
\* Coeficients is make([]float64, HashTableSize): the function from the
\* indices written so far to their values, every other index holding 0
CoefAt(c, i) == IF i \in DOMAIN c THEN c[i] ELSE F(0)
CoefSet(c, i, v) == [j \in (DOMAIN c) \cup {i} |-> IF j = i THEN v ELSE c[j]]

Predict_language(model, example) ==
  FAdd(model.Bias,
       FSum([i \in 1..Len(example.Features) |->
               CoefAt(model.Coeficients, example.Features[i])],
            Len(example.Features)))

\* the loop over example.Features, from position j on
RECURSIVE UpdateCoeficients_language(_, _, _, _)
UpdateCoeficients_language(c, features, j, delta) ==
  IF j > Len(features) THEN c
  ELSE UpdateCoeficients_language(
         CoefSet(c, features[j], FSub(CoefAt(c, features[j]), delta)),
         features, j + 1, delta)

Train_language_Call ==
  /\ tVariant = "language" /\ tPc = "call"
  /\ tModel' = [Bias |-> F(0), Coeficients |-> <<>>]
  /\ tEpoch' = 0
  /\ tPc' = "epoch"
  /\ UNCHANGED <<tVariant, tDataSet, tLearningRate, tNumEpochs, tNgrams, tI,
                 tSumError, tLog, tResult, fileVars, notTrain>>

\* the model after one example
TrainStep_language(model, example, learningRate) ==
  LET prediction == Predict_language(model, example)
      error      == FSub(prediction, example.Label)
  IN  [Bias |-> FSub(model.Bias, FMul(learningRate, error)),
       Coeficients |-> UpdateCoeficients_language(
                         model.Coeficients, example.Features, 1,
                         FMul(learningRate, error))]

Train_language_Example ==
  /\ tVariant = "language" /\ tPc = "example" /\ tI < Len(tDataSet)
  /\ LET example    == tDataSet[tI + 1]
         prediction == Predict_language(tModel, example)
         error      == FSub(prediction, example.Label)
     IN  /\ tSumError' = FAdd(tSumError, FMul(error, error))
         /\ tModel' = TrainStep_language(tModel, example, tLearningRate)
         /\ tI' = tI + 1
         /\ tLog' = Append(tLog, [kind |-> "step", epoch |-> tEpoch, i |-> tI])
  /\ UNCHANGED <<tVariant, tDataSet, tLearningRate, tNumEpochs, tNgrams, tPc,
                 tEpoch, tResult, fileVars, notTrain>>

\* ---- spago ----
\* The sparse_stochastic_linear model and the optimizer are library code:
\* the weights are identified by the number of optimizer.Optimize() calls
\* that have updated them, and the values the graph computes are not modelled.
Train_spago_Call ==
  /\ tVariant = "spago" /\ tPc = "call"
  /\ tModel' = [internalModel |-> [nil |-> FALSE, updates |-> 0], Ngrams |-> tNgrams]
  /\ tEpoch' = 0
  /\ tPc' = "epoch"
  /\ UNCHANGED <<tVariant, tDataSet, tLearningRate, tNumEpochs, tNgrams, tI,
                 tSumError, tLog, tResult, fileVars, notTrain>>

Train_spago_Example ==
  /\ tVariant = "spago" /\ tPc = "example" /\ tI < Len(tDataSet)
  /\ tModel' = [tModel EXCEPT !.internalModel.updates = @ + 1]
  /\ tI' = tI + 1
  /\ tLog' = Append(tLog, [kind |-> "step", epoch |-> tEpoch, i |-> tI])
  /\ UNCHANGED <<tVariant, tDataSet, tLearningRate, tNumEpochs, tNgrams, tPc,
                 tEpoch, tSumError, tResult, fileVars, notTrain>>

\* ---- the loops, the same text in the three variants ----
Train_EpochStart ==
  /\ tPc = "epoch" /\ tEpoch < tNumEpochs
  /\ tSumError' = F(0)
  /\ tI' = 0
  /\ tPc' = "example"
  /\ UNCHANGED <<tVariant, tDataSet, tLearningRate, tNumEpochs, tNgrams, tModel,
                 tEpoch, tLog, tResult, fileVars, notTrain>>

\* loss := math.Sqrt(sumError / len(dataSet)) is printed; the log keeps the
\* mean under the root (spago: sumError comes from the library and its value
\* is not modelled, which the entry says)
Train_EpochEnd ==
  /\ tPc = "example" /\ tI >= Len(tDataSet)
  /\ tLog' = Append(tLog, [kind |-> "loss", epoch |-> tEpoch,
                           valueModelled |-> tVariant # "spago",
                           mean |-> FDiv(tSumError, F(Len(tDataSet)))])
  /\ tEpoch' = tEpoch + 1
  /\ tPc' = "epoch"
  /\ UNCHANGED <<tVariant, tDataSet, tLearningRate, tNumEpochs, tNgrams, tModel,
                 tI, tSumError, tResult, fileVars, notTrain>>

\* a return as soon as one epoch has run
Train_Return_earlyStop ==
  /\ tPc = "epoch" /\ (tEpoch >= tNumEpochs \/ tEpoch >= 1)
  /\ tResult' = Ran([err |-> "nil", model |-> tModel])
  /\ tPc' = "returned"
  /\ UNCHANGED <<tVariant, tDataSet, tLearningRate, tNumEpochs, tNgrams, tModel,
                 tEpoch, tI, tSumError, tLog, fileVars, notTrain>>

Train_Return ==
  /\ tPc = "epoch" /\ tEpoch >= tNumEpochs
  /\ tResult' = Ran([err |-> "nil", model |-> tModel])
  /\ tPc' = "returned"
  /\ UNCHANGED <<tVariant, tDataSet, tLearningRate, tNumEpochs, tNgrams, tModel,
                 tEpoch, tI, tSumError, tLog, fileVars, notTrain>>

(***************************************************************************)
(* SaveModel and LoadModel.  json.MarshalIndent writes the exported fields *)
(* of Model and fails on a NaN or Inf float64; a finite float64 is written *)
(* as the shortest decimal that parses back to it, so the document holds   *)
(* its value.                                                              *)
(***************************************************************************)
AllFiniteSeq(fs) == \A i \in DOMAIN fs : IsFinite(fs[i])

Marshal_wine(model) ==
  IF /\ IsFinite(model.Bias)
     /\ AllFiniteSeq(model.Coeficients)
     /\ AllFiniteSeq(model.MinFeatureValues)
     /\ AllFiniteSeq(model.MaxFeatureValues)
  THEN [err |-> "nil",
        content |-> [Bias |-> model.Bias, Coeficients |-> model.Coeficients,
                     MinFeatureValues |-> model.MinFeatureValues,
                     MaxFeatureValues |-> model.MaxFeatureValues]]
  ELSE [err |-> "json: unsupported value", content |-> <<>>]

Unmarshal_wine(content) ==
  [Bias |-> content.Bias, Coeficients |-> content.Coeficients,
   MinFeatureValues |-> content.MinFeatureValues,
   MaxFeatureValues |-> content.MaxFeatureValues]

Marshal_language(model) ==
  IF IsFinite(model.Bias) /\ AllFiniteSeq(model.Coeficients)
  THEN [err |-> "nil",
        content |-> [Bias |-> model.Bias, Coeficients |-> model.Coeficients]]
  ELSE [err |-> "json: unsupported value", content |-> <<>>]

Unmarshal_language(content) ==
  [Bias |-> content.Bias, Coeficients |-> content.Coeficients]

\* internalModel is unexported: encoding/json neither writes nor reads it
Marshal_spago(model) == [err |-> "nil", content |-> [Ngrams |-> model.Ngrams]]

Unmarshal_spago(content) ==
  [internalModel |-> [nil |-> TRUE, updates |-> 0], Ngrams |-> content.Ngrams]

Marshal(variant, model) ==
  CASE variant = "wine" -> Marshal_wine(model)
    [] variant = "language" -> Marshal_language(model)
    [] variant = "spago" -> Marshal_spago(model)

\* main calls SaveModel with the model Train returned without error
SaveModel(variant) ==
  /\ tVariant = variant
  /\ tPc = "returned" /\ tResult.done /\ tResult.val.err = "nil"
  /\ ~tSaved.done
  /\ LET js == Marshal(variant, tResult.val.model)
     IN  /\ tSaved' = Ran(js.err)
         /\ tFile' = IF js.err = "nil" THEN Ran(js.content) ELSE tFile
  /\ UNCHANGED <<tLoaded, trainVars, notTrain>>

SaveModel_wine == SaveModel("wine")
SaveModel_language == SaveModel("language")
SaveModel_spago == SaveModel("spago")

\* the test program, run after the training program
LoadModel(variant) ==
  /\ tVariant = variant
  /\ tSaved.done /\ ~tLoaded.done
  /\ tLoaded' =
       IF ~tFile.done THEN Ran([err |-> "no such file", model |-> <<>>])
       ELSE Ran([err |-> "nil",
                 model |-> CASE variant = "wine" -> Unmarshal_wine(tFile.val)
                             [] variant = "language" -> Unmarshal_language(tFile.val)
                             [] variant = "spago" -> Unmarshal_spago(tFile.val)])
  /\ UNCHANGED <<tFile, tSaved, trainVars, notTrain>>

LoadModel_wine == LoadModel("wine")
LoadModel_language == LoadModel("language")
LoadModel_spago == LoadModel("spago")

(***************************************************************************)
(* Training, saving and loading on bounded datasets                        *)
(***************************************************************************)
TrainValues == {F(1), F(3)}
TrainLabels == {F(0), F(1)}
LearningRates == {[n |-> 1, d |-> 2]}
NgramOrders == {0, 2}

Examples_wine ==
  {[Features |-> fs, Label |-> l] :
     fs \in [1..1 -> TrainValues] \cup [1..2 -> TrainValues], l \in TrainLabels}
Examples_language ==
  {[Sentence |-> st, Features |-> FeatureHash_language(Split(st)), Label |-> l] :
     st \in Sentences, l \in TrainLabels}
Examples_spago(n) ==
  {[Sentence |-> st,
    Features |-> FeatureHash_spago(IF n > 0 THEN makeNgrams(Split(st), n)
                                   ELSE Split(st), NewSparse),
    Label |-> l] : st \in Sentences, l \in TrainLabels}

InitTrain ==
  /\ FeaturesIdle
  /\ CsvIdle
  /\ NormIdle
  /\ TestIdle
  /\ tVariant \in {"wine", "language", "spago"}
  /\ tNgrams \in IF tVariant = "spago" THEN NgramOrders ELSE {0}
  /\ tDataSet \in SeqsUpTo(CASE tVariant = "wine" -> Examples_wine
                             [] tVariant = "language" -> Examples_language
                             [] tVariant = "spago" -> Examples_spago(tNgrams),
                           MaxExamples)
  /\ tLearningRate \in LearningRates
  /\ tNumEpochs \in 0..MaxEpochs
  /\ tPc = "call"
  /\ tModel = <<>>
  /\ tEpoch = 0
  /\ tI = 0
  /\ tSumError = F(0)
  /\ tLog = <<>>
  /\ tResult = NotRun
  /\ tFile = NotRun
  /\ tSaved = NotRun
  /\ tLoaded = NotRun

NextTrain ==
  \/ Train_wine_Call
  \/ Train_wine_Example
  \/ Train_language_Call
  \/ Train_language_Example
  \/ Train_spago_Call
  \/ Train_spago_Example
  \/ Train_EpochStart
  \/ Train_EpochEnd
  \/ Train_Return
  \/ SaveModel_wine
  \/ SaveModel_language
  \/ SaveModel_spago
  \/ LoadModel_wine
  \/ LoadModel_language
  \/ LoadModel_spago

SpecTrain == InitTrain /\ [][NextTrain]_vars

(***************************************************************************)
(* Claims about Train, SaveModel and LoadModel                             *)
(***************************************************************************)
\* the log without the values: (kind, epoch, example)
LogShape(log) ==
  [k \in 1..Len(log) |->
     <<log[k].kind, log[k].epoch, IF log[k].kind = "step" THEN log[k].i ELSE -1>>]

\* epochs 0..E-1 in order, each one step per example 0..n-1 in order and then
\* its loss
ExpectedShape(E, n) ==
  [k \in 1..(E * (n + 1)) |->
     LET e == (k - 1) \div (n + 1)
         r == (k - 1) % (n + 1)
     IN  IF r < n THEN <<"step", e, r>> ELSE <<"loss", e, -1>>]

IsPrefix(a, b) == Len(a) <= Len(b) /\ a = SubSeq(b, 1, Len(a))

\* C9 as stated: for every dataset and numEpochs >= 0, Train runs exactly
\* numEpochs epochs in increasing order, one prediction-then-update step per
\* example in dataset order, one loss per epoch after its last update, and
\* returns the model.
C9_EveryDatasetRunsAllEpochs ==
  tPc = "returned" =>
    /\ tResult.val.err = "nil"
    /\ LogShape(tLog) = ExpectedShape(tNumEpochs, Len(tDataSet))

\* the datasets dense Train rejects before the first epoch
Rejected_wine(ds) ==
  \/ Len(ds) < 1
  \/ \E i \in 1..Len(ds) : Len(ds[i].Features) < Len(ds[1].Features)

\* the datasets of C9 as amended: any sparse dataset; a dense dataset that is
\* not empty and whose examples all have the first example's feature count
Accepted(variant, ds) ==
  \/ variant \in {"language", "spago"}
  \/ /\ variant = "wine"
     /\ Len(ds) >= 1
     /\ \A i \in 1..Len(ds) : Len(ds[i].Features) = Len(ds[1].Features)

\* a dense dataset normalisation lets through with an example of more
\* features than the first: Predict indexes the coefficients out of range at
\* that example
LongExample_wine(ds) ==
  /\ ~Rejected_wine(ds)
  /\ \E i \in 1..Len(ds) : Len(ds[i].Features) > Len(ds[1].Features)

\* what holds of every state of a run of Train
C9_Safety ==
  /\ Accepted(tVariant, tDataSet) =>
       /\ tPc # "panicked"
       /\ IsPrefix(LogShape(tLog), ExpectedShape(tNumEpochs, Len(tDataSet)))
       /\ tPc = "returned" =>
            /\ tResult.val.err = "nil"
            /\ tResult.val.model = tModel
            /\ LogShape(tLog) = ExpectedShape(tNumEpochs, Len(tDataSet))
  /\ (tVariant = "wine" /\ Rejected_wine(tDataSet)) =>
       /\ tPc \in {"call", "returned"}
       /\ tPc = "returned" => (tResult.val.err # "nil" /\ tLog = <<>>)
  /\ (tVariant = "wine" /\ LongExample_wine(tDataSet)) =>
       /\ IsPrefix(LogShape(tLog), ExpectedShape(tNumEpochs, Len(tDataSet)))
       /\ tPc = "returned" =>
            (tResult.val.err = "nil" /\ tNumEpochs = 0 /\ tLog = <<>>)

\* the steps Train has left: the call, per epoch its start, its examples
\* and its end, and the return
StepsLeft ==
  LET perEpoch == Len(tDataSet) + 2
  IN  CASE tPc = "call" -> 1 + tNumEpochs * perEpoch + 1
        [] tPc = "epoch" -> (tNumEpochs - tEpoch) * perEpoch + 1
        [] tPc = "example" ->
             (Len(tDataSet) - tI) + 1 + (tNumEpochs - tEpoch - 1) * perEpoch + 1
        [] OTHER -> 0

\* every step of Train uses up one of the steps it has left
TrainProgress ==
  (tPc \in {"call", "epoch", "example"} /\ trainVars' # trainVars)
    => (StepsLeft' < StepsLeft /\ StepsLeft' >= 0)

\* C9 (amended): for every numEpochs >= 0 and every dataset Train accepts,
\* Train runs exactly numEpochs epochs 0..numEpochs-1 in increasing order, in
\* each one step per example in dataset order and then one loss, and then
\* returns the model: the log is always a prefix of that sequence, at the
\* return it is the whole sequence, and every step of Train brings the return
\* nearer.  A dense dataset that is empty or has an example with fewer
\* features than the first makes Train return an error before any epoch; one
\* with an example of more features than the first is not accepted either:
\* Train takes the steps in order up to that example and returns a model only
\* when numEpochs = 0.
C9_AcceptedDatasetRunsAllEpochs ==
  /\ []C9_Safety
  /\ [][TrainProgress]_vars

\* dense Train returned after two epochs over two examples
C9_Witness ==
  /\ tVariant = "wine"
  /\ tPc = "returned"
  /\ tResult.val.err = "nil"
  /\ tNumEpochs = 2
  /\ Len(tDataSet) = 2
  /\ Len(tLog) = 6

\* every index a coefficient can be asked for in the model
IndexUniverse ==
  {TokenIndex(w) : w \in Tokens} \cup DOMAIN tModel.Coeficients

\* the transition is one sparse training step
StepTaken_language ==
  tVariant = "language" /\ tPc = "example" /\ tI' = tI + 1

\* the step lowers the bias by g and each coefficient by g per occurrence of
\* its index in the example, and leaves every other coefficient as it was
LoweredBy(g) ==
  LET features == tDataSet[tI + 1].Features
      k(idx)   == Cardinality({j \in 1..Len(features) : features[j] = idx})
  IN  /\ tModel'.Bias = FSub(tModel.Bias, g)
      /\ \A idx \in IndexUniverse \cup DOMAIN tModel'.Coeficients :
           CoefAt(tModel'.Coeficients, idx)
             = FSub(CoefAt(tModel.Coeficients, idx), FMul(F(k(idx)), g))

\* C10 as stated: in one sparse training step with prediction p and error
\* e = p - label, the bias decreases by lr * e * p * (1 - p), each coefficient
\* by that gradient once per occurrence of its index, and the others are
\* unchanged.
C10_LogisticGradientStep ==
  [][StepTaken_language =>
       LET ex == tDataSet[tI + 1]
           pr == Predict_language(tModel, ex)
           e  == FSub(pr, ex.Label)
       IN  LoweredBy(FMul(FMul(FMul(tLearningRate, e), pr), FSub(F(1), pr)))]_vars

\* C10 (amended): in one sparse training step with prediction p (the bias
\* plus the coefficients of the example's indices, no sigmoid) and error
\* e = p - label, the bias decreases by lr * e, each coefficient whose index
\* occurs k times in the example by k * lr * e, and every coefficient whose
\* index does not occur is unchanged.
C10_LinearGradientStep ==
  [][StepTaken_language =>
       LET ex == tDataSet[tI + 1]
           pr == Predict_language(tModel, ex)
           e  == FSub(pr, ex.Label)
       IN  LoweredBy(FMul(tLearningRate, e))]_vars

\* after the second step of the first epoch: the second example holds one
\* index twice, and a coefficient written by the first step lies outside it
C10_Witness ==
  /\ tVariant = "language"
  /\ tPc = "example" /\ tEpoch = 0 /\ tI = 2
  /\ LET f == tDataSet[2].Features
     IN  /\ Len(f) = 2 /\ f[1] = f[2]
         /\ CoefAt(tModel.Coeficients, f[1]) # F(0)
         /\ \E idx \in DOMAIN tModel.Coeficients :
              /\ idx # f[1]
              /\ CoefAt(tModel.Coeficients, idx) # F(0)

\* C5: for every model Train returns, LoadModel applied to the file written
\* by SaveModel succeeds and returns a model equal to the saved one in every
\* field.
C5_LoadOfSaveIsTheModel ==
  tLoaded.done =>
    /\ tLoaded.val.err = "nil"
    /\ tLoaded.val.model = tResult.val.model

\* The statement of C5 restricted to the language variant, whose Model has
\* the exported fields Bias and Coeficients only.
C5_LanguageVariant ==
  (tVariant = "language" /\ tLoaded.done) =>
    /\ tLoaded.val.err = "nil"
    /\ tLoaded.val.model = tResult.val.model

(***************************************************************************)
(* Test: the fraction of the examples the model classifies as labelled.    *)
(***************************************************************************)
\* the treshold of the classification
Treshold == [n |-> 1, d |-> 2]

\* correct := 0.0
Test_Call ==
  /\ tePc = "call"
  /\ teCorrect' = F(0)
  /\ teI' = 0
  /\ tePc' = "loop"
  /\ UNCHANGED <<teVariant, teModel, teDataSet, teListened, teResult, notTest>>

\* one iteration of the range loop (language)
Test_language_Example ==
  /\ teVariant = "language" /\ tePc = "loop" /\ teI < Len(teDataSet)
  /\ LET example    == teDataSet[teI + 1]
         prediction == Predict_language(teModel, example)
         classificationPrediction ==
           IF FLt(Treshold, prediction) THEN F(1) ELSE F(0)
     IN  /\ teCorrect' = IF classificationPrediction = example.Label
                         THEN FAdd(teCorrect, F(1)) ELSE teCorrect
         /\ teListened' = Append(teListened, [example |-> example,
                                              prediction |-> prediction])
  /\ teI' = teI + 1
  /\ UNCHANGED <<teVariant, teModel, teDataSet, tePc, teResult, notTest>>

\* one iteration of the range loop (spago): the call of Predict, the
\* classification and the count are commented out; prediction := 0.0
Test_spago_Example ==
  /\ teVariant = "spago" /\ tePc = "loop" /\ teI < Len(teDataSet)
  /\ LET example    == teDataSet[teI + 1]
         prediction == F(0)
     IN  teListened' = Append(teListened, [example |-> example,
                                           prediction |-> prediction])
  /\ teI' = teI + 1
  /\ UNCHANGED <<teVariant, teModel, teDataSet, tePc, teCorrect, teResult,
                 notTest>>

\* return correct / float64(len(dataSet))
Test_Return ==
  /\ tePc = "loop" /\ teI >= Len(teDataSet)
  /\ teResult' = Ran(FDiv(teCorrect, F(Len(teDataSet))))
  /\ tePc' = "returned"
  /\ UNCHANGED <<teVariant, teModel, teDataSet, teI, teCorrect, teListened,
                 notTest>>

\* ---- inputs ----
TestIndices == UNION {{e.Features[i] : i \in 1..Len(e.Features)} :
                        e \in Examples_language}
TestWeights == {F(0), Treshold, F(1)}
TestModels_language ==
  {[Bias |-> b, Coeficients |-> c] :
     b \in {F(0), Treshold}, c \in [TestIndices -> TestWeights]}
TestModels_spago ==
  {[internalModel |-> [nil |-> FALSE, updates |-> u], Ngrams |-> 0] :
     u \in 0..1}

InitTest ==
  /\ FeaturesIdle
  /\ CsvIdle
  /\ NormIdle
  /\ TrainIdle
  /\ teVariant \in {"language", "spago"}
  /\ teModel \in IF teVariant = "language" THEN TestModels_language
                 ELSE TestModels_spago
  /\ teDataSet \in SeqsUpTo(IF teVariant = "language" THEN Examples_language
                            ELSE Examples_spago(0), MaxTestExamples)
  /\ tePc = "call"
  /\ teI = 0
  /\ teCorrect = F(0)
  /\ teListened = <<>>
  /\ teResult = NotRun

NextTest ==
  \/ Test_Call
  \/ Test_language_Example
  \/ Test_spago_Example
  \/ Test_Return

SpecTest == InitTest /\ [][NextTest]_vars

\* ---- C6 ----
\* the prediction Test made for example i, as the listener received it,
\* thresholded
Thresholded(i) ==
  IF FLt(Treshold, teListened[i].prediction) THEN F(1) ELSE F(0)

Matches(i) == Thresholded(i) = teDataSet[i].Label

MatchCount == Cardinality({i \in 1..Len(teDataSet) : Matches(i)})

\* what Test has to return on the dataset
FractionCorrect == FDiv(F(MatchCount), F(Len(teDataSet)))

\* C6: in sparse mode Test returns the fraction of examples whose
\* thresholded prediction (1.0 if prediction > 0.5, else 0.0) equals the
\* label: on a non-empty dataset where all match it returns exactly 1.0, and
\* where none match exactly 0.0.
C6_TestReturnsFractionCorrect ==
  (teResult.done /\ Len(teDataSet) >= 1) =>
    /\ teResult.val = FractionCorrect
    /\ (\A i \in 1..Len(teDataSet) : Matches(i)) => teResult.val = F(1)
    /\ (\A i \in 1..Len(teDataSet) : ~Matches(i)) => teResult.val = F(0)

\* The statement of C6 restricted to the language variant, where the
\* prediction is Predict's.
C6_LanguageVariant ==
  (teVariant = "language" /\ teResult.done /\ Len(teDataSet) >= 1) =>
    /\ \A i \in 1..Len(teDataSet) :
         teListened[i].prediction = Predict_language(teModel, teDataSet[i])
    /\ teResult.val = FractionCorrect
    /\ (\A i \in 1..Len(teDataSet) : Matches(i)) => teResult.val = F(1)
    /\ (\A i \in 1..Len(teDataSet) : ~Matches(i)) => teResult.val = F(0)

\* the language Test returned 1.0 on two examples of different labels
C6_LanguageAllCorrect ==
  /\ teVariant = "language" /\ teResult.done /\ Len(teDataSet) = 2
  /\ teResult.val = F(1)
  /\ teDataSet[1].Label # teDataSet[2].Label

\* C11: for every dense dataset, empty and ragged ones included, Train either
\* returns an error or returns a model and never accesses a feature or
\* coefficient vector out of range; it returns the error when the dataset is
\* empty or some example has fewer features than the first, and a returned
\* model has coefficient, min and max vectors of the first example's feature
\* count.
C11_DenseTrainNeverOutOfRange ==
  tVariant = "wine" =>
    /\ tPc # "panicked"
    /\ (tPc = "returned" /\ Rejected_wine(tDataSet)) => tResult.val.err # "nil"
    /\ (tPc = "returned" /\ tResult.val.err = "nil") =>
         LET n == Len(tDataSet[1].Features)
             model == tResult.val.model
         IN  /\ Len(model.Coeficients) = n
             /\ Len(model.MinFeatureValues) = n
             /\ Len(model.MaxFeatureValues) = n

\* The statement of C11 without the out-of-range part: the error returns and
\* the lengths of a returned model's vectors.
C11_ErrorsAndLengths ==
  tVariant = "wine" =>
    /\ (tPc = "returned" /\ Rejected_wine(tDataSet)) => tResult.val.err # "nil"
    /\ (tPc = "returned" /\ tResult.val.err = "nil") =>
         LET n == Len(tDataSet[1].Features)
             model == tResult.val.model
         IN  /\ ~Rejected_wine(tDataSet)
             /\ Len(model.Coeficients) = n
             /\ Len(model.MinFeatureValues) = n
             /\ Len(model.MaxFeatureValues) = n

\* fnv.New32a of "a" is 0xE40C292C
FnvVectorA == FnvWrite(FnvReset, <<"a">>) = [hi |-> 58380, lo |-> 10540]
=============================================================================
